---- MODULE Spec2Model ----
(***************************************************************************)
(* Model of fetch_weather.py: a fetch -> flatten -> append pipeline that   *)
(* stores one weather observation per process run as one CSV row.          *)
(*                                                                         *)
(* Python values are tagged records [k, s, m, l]:                          *)
(*   k = "null" | "num" | "str" | "bool" | "obj" | "arr" | "exc"           *)
(*   s = text of a scalar (for a number: its Python str()), or the name of *)
(*       the exception for k = "exc"                                       *)
(*   m = the mapping of a dict, l = the items of a list.                   *)
(* A raised exception is the value Exc(name); every operator that models a *)
(* Python expression propagates it, as the interpreter unwinds.            *)
(* File contents are text (TLA+ strings), rows end in CR LF as written by  *)
(* the csv module on a file opened with newline=''.                        *)
(***************************************************************************)
EXTENDS Integers, Sequences, FiniteSets, TLC

\* ------------------------------------------------------------------ values
Null    == [k |-> "null", s |-> "", m |-> <<>>, l |-> <<>>]
Num(t)  == [k |-> "num",  s |-> t,  m |-> <<>>, l |-> <<>>]
Str(t)  == [k |-> "str",  s |-> t,  m |-> <<>>, l |-> <<>>]
Bool(t) == [k |-> "bool", s |-> t,  m |-> <<>>, l |-> <<>>]
Obj(f)  == [k |-> "obj",  s |-> "", m |-> f,    l |-> <<>>]
Arr(q)  == [k |-> "arr",  s |-> "", m |-> <<>>, l |-> q]
Exc(t)  == [k |-> "exc",  s |-> t,  m |-> <<>>, l |-> <<>>]

IsExc(v) == v.k = "exc"

Ch(s, i) == SubSeq(s, i, i)

\* dict.get(key, default); any other type has no attribute 'get'
Get(d, key, default) ==
    IF IsExc(d) THEN d
    ELSE IF d.k = "obj"
         THEN IF key \in DOMAIN d.m THEN d.m[key] ELSE default
         ELSE Exc("AttributeError")

\* v[0]
Index0(v) ==
    IF IsExc(v) THEN v
    ELSE IF v.k = "arr"
         THEN IF Len(v.l) > 0 THEN v.l[1] ELSE Exc("IndexError")
    ELSE IF v.k = "obj" THEN Exc("KeyError")
    ELSE IF v.k = "str"
         THEN IF Len(v.s) > 0 THEN Str(Ch(v.s, 1)) ELSE Exc("IndexError")
    ELSE Exc("TypeError")

\* str(v) / format(v, '') of a scalar
PyStr(v) ==
    CASE v.k = "null" -> "None"
      [] v.k \in {"num", "str", "bool"} -> v.s

\* ------------------------------------------------------------- flattener
fieldnames ==
    << "timestamp", "api_timestamp", "city_id", "city_name", "country",
       "lat", "lon", "timezone", "weather_id", "weather_main",
       "weather_description", "temp", "feels_like", "temp_min", "temp_max",
       "pressure", "humidity", "sea_level_pressure", "grnd_level_pressure",
       "visibility", "wind_speed", "wind_direction", "clouds_all",
       "sunrise", "sunset" >>

NumFields == 25

FieldSet == {fieldnames[i] : i \in 1..Len(fieldnames)}

EmptyObj == Obj(<<>>)

\* the dict display of flatten_weather_data, entry by entry
FlatEntries(data, ts) ==
    [ timestamp           |-> Str(ts),
      api_timestamp       |-> Get(data, "dt", Null),
      city_id             |-> Get(data, "id", Null),
      city_name           |-> Get(data, "name", Null),
      country             |-> Get(Get(data, "sys", EmptyObj), "country", Null),
      lat                 |-> Get(Get(data, "coord", EmptyObj), "lat", Null),
      lon                 |-> Get(Get(data, "coord", EmptyObj), "lon", Null),
      timezone            |-> Get(data, "timezone", Null),
      weather_id          |-> Get(Index0(Get(data, "weather", Arr(<<EmptyObj>>))), "id", Null),
      weather_main        |-> Get(Index0(Get(data, "weather", Arr(<<EmptyObj>>))), "main", Null),
      weather_description |-> Get(Index0(Get(data, "weather", Arr(<<EmptyObj>>))), "description", Null),
      temp                |-> Get(Get(data, "main", EmptyObj), "temp", Null),
      feels_like          |-> Get(Get(data, "main", EmptyObj), "feels_like", Null),
      temp_min            |-> Get(Get(data, "main", EmptyObj), "temp_min", Null),
      temp_max            |-> Get(Get(data, "main", EmptyObj), "temp_max", Null),
      pressure            |-> Get(Get(data, "main", EmptyObj), "pressure", Null),
      humidity            |-> Get(Get(data, "main", EmptyObj), "humidity", Null),
      sea_level_pressure  |-> Get(Get(data, "main", EmptyObj), "sea_level", Null),
      grnd_level_pressure |-> Get(Get(data, "main", EmptyObj), "grnd_level", Null),
      visibility          |-> Get(data, "visibility", Null),
      wind_speed          |-> Get(Get(data, "wind", EmptyObj), "speed", Null),
      wind_direction      |-> Get(Get(data, "wind", EmptyObj), "deg", Null),
      clouds_all          |-> Get(Get(data, "clouds", EmptyObj), "all", Null),
      sunrise             |-> Get(Get(data, "sys", EmptyObj), "sunrise", Null),
      sunset              |-> Get(Get(data, "sys", EmptyObj), "sunset", Null) ]

\* The entries are evaluated in source order: the first one that raises
\* ends the call with its exception, otherwise the dict is returned.
flatten_weather_data(data, ts) ==
    LET e   == FlatEntries(data, ts)
        bad == {i \in 1..Len(fieldnames) : IsExc(e[fieldnames[i]])}
    IN  IF bad = {} THEN Obj(e)
        ELSE e[fieldnames[CHOOSE i \in bad : \A j \in bad : i <= j]]

\* ------------------------------------------------------------ csv writer
\* csv.writer: None is written as the empty string, a str as it is, any
\* other value as str(value)
CsvText(v) == IF v.k = "null" THEN "" ELSE PyStr(v)

\* QUOTE_MINIMAL: a field is quoted when it holds the delimiter, the quote
\* character or a line-terminator character
NeedsQuote(s) == \E i \in 1..Len(s) : Ch(s, i) \in {",", "\"", "\r", "\n"}

\* doublequote=True: every quote character inside a quoted field is doubled
RECURSIVE DoubleQuotes(_, _, _)
DoubleQuotes(s, a, b) ==
    IF a > b THEN ""
    ELSE IF a = b THEN (IF Ch(s, a) = "\"" THEN "\"\"" ELSE Ch(s, a))
    ELSE LET mid == (a + b) \div 2
         IN  DoubleQuotes(s, a, mid) \o DoubleQuotes(s, mid + 1, b)

QuoteField(s) ==
    IF NeedsQuote(s) THEN "\"" \o DoubleQuotes(s, 1, Len(s)) \o "\"" ELSE s

RECURSIVE JoinFields(_, _, _)
JoinFields(cells, a, b) ==
    IF a > b THEN ""
    ELSE IF a = b THEN QuoteField(CsvText(cells[a]))
    ELSE LET mid == (a + b) \div 2
         IN  JoinFields(cells, a, mid) \o "," \o JoinFields(cells, mid + 1, b)

\* csv.writer.writerow: the text of one row, line terminator included
WriterRow(cells) == JoinFields(cells, 1, Len(cells)) \o "\r\n"

\* faulty variant: the cells of the fields that are not None only
DictToListDropNull(rowdict) ==
    IF IsExc(rowdict) THEN rowdict
    ELSE IF rowdict.k # "obj" THEN Exc("AttributeError")
    ELSE IF DOMAIN rowdict.m \ FieldSet # {} THEN Exc("ValueError")
    ELSE Arr(SelectSeq([i \in 1..Len(fieldnames) |-> Get(rowdict, fieldnames[i], Str(""))],
                       LAMBDA v : v.k # "null"))

\* DictWriter._dict_to_list: a key outside fieldnames raises ValueError,
\* otherwise one cell per field name, in the order of fieldnames
DictToList(rowdict) ==
    IF IsExc(rowdict) THEN rowdict
    ELSE IF rowdict.k # "obj" THEN Exc("AttributeError")
    ELSE IF DOMAIN rowdict.m \ FieldSet # {} THEN Exc("ValueError")
    ELSE Arr([i \in 1..Len(fieldnames) |-> Get(rowdict, fieldnames[i], Str(""))])

\* DictWriter.writerow(rowdict): the text it writes, or the exception
DictWriterRow(rowdict) ==
    LET cells == DictToList(rowdict)
    IN  IF IsExc(cells) THEN cells ELSE Str(WriterRow(cells.l))

\* DictWriter.writeheader(): writerow(dict(zip(fieldnames, fieldnames)))
HeaderText ==
    DictWriterRow(Obj([f \in FieldSet |-> Str(f)])).s

\* --------------------------------------------------- reading a file back
\* the positions of the character c in s that lie outside quotes: those
\* with an even number of quote characters before them
UnquotedPositions(s, c) ==
    LET quotes == {i \in 1..Len(s) : Ch(s, i) = "\""}
    IN  {i \in 1..Len(s) :
            Ch(s, i) = c /\ Cardinality({q \in quotes : q < i}) % 2 = 0}

\* the pieces of s from position from on, cut at the positions cuts
RECURSIVE SplitAt(_, _, _)
SplitAt(s, from, cuts) ==
    IF cuts = {} THEN <<SubSeq(s, from, Len(s))>>
    ELSE LET cut == CHOOSE x \in cuts : \A y \in cuts : x <= y
         IN  <<SubSeq(s, from, cut - 1)>> \o SplitAt(s, cut + 1, cuts \ {cut})

\* the pieces of s between the unquoted occurrences of c
SplitUnquoted(s, c) == SplitAt(s, 1, UnquotedPositions(s, c))

\* a quoted field without its outer quotes and with "" read as "
RECURSIVE Undouble(_, _, _, _)
Undouble(s, a, b, par) ==
    IF a > b THEN [t |-> "", par |-> par]
    ELSE IF a = b
         THEN IF Ch(s, a) = "\""
              THEN [t |-> IF par = 0 THEN "\"" ELSE "", par |-> 1 - par]
              ELSE [t |-> Ch(s, a), par |-> par]
    ELSE LET mid == (a + b) \div 2
             L   == Undouble(s, a, mid, par)
             R   == Undouble(s, mid + 1, b, L.par)
         IN  [t |-> L.t \o R.t, par |-> R.par]

Unquote(f) ==
    IF Len(f) >= 2 /\ Ch(f, 1) = "\""
    THEN Undouble(f, 2, Len(f) - 1, 0).t
    ELSE f

\* the text of the records of a file: each ends in an unquoted CR LF
RecordTexts(content) ==
    LET pieces == SplitUnquoted(content, "\n")
    IN  [i \in 1..(Len(pieces) - 1) |->
            IF Len(pieces[i]) > 0 /\ Ch(pieces[i], Len(pieces[i])) = "\r"
            THEN SubSeq(pieces[i], 1, Len(pieces[i]) - 1)
            ELSE pieces[i]]

FieldsOf(rec) ==
    LET raw == SplitUnquoted(rec, ",")
    IN  [i \in 1..Len(raw) |-> Unquote(raw[i])]

\* the rows of a file as a csv reader returns them
ReadRows(content) ==
    LET recs == RecordTexts(content)
    IN  [i \in 1..Len(recs) |-> FieldsOf(recs[i])]

\* ------------------------------------------------------------ wall clock
\* datetime.now() over a window of seconds at a turn of the year:
\* tick 0 is 2026-12-31T23:59:59
MaxClock == 1

Year(t) == IF t < 1 THEN 2026 ELSE 2027

\* datetime.now().isoformat()
IsoFormat(t) ==
    IF t < 1 THEN "2026-12-31T23:59:59"
    ELSE IF t < 11 THEN "2027-01-01T00:00:0" \o ToString(t - 1)
    ELSE "2027-01-01T00:00:" \o ToString(t - 1)

\* ----------------------------------------------------------- file names
\* get_csv_filename(data) evaluated when the clock shows t
get_csv_filename(data, t) ==
    LET lat == Get(data, "lat", Null)
        lon == Get(data, "lon", Null)
    IN  IF IsExc(lat) THEN lat
        ELSE Str(ToString(Year(t)) \o "-" \o PyStr(lat) \o "-" \o PyStr(lon) \o ".csv")

\* truth value of a Python object
Truthy(v) ==
    CASE v.k = "null" -> FALSE
      [] v.k = "str"  -> v.s # ""
      [] v.k = "bool" -> v.s = "True"
      [] v.k = "num"  -> v.s \notin {"0", "0.0"}
      [] v.k = "obj"  -> DOMAIN v.m # {}
      [] v.k = "arr"  -> Len(v.l) > 0

\* faulty variant: a if a is not None else b
PyOrNone(a, b) == IF a.k # "null" THEN a ELSE b

\* a or b
PyOr(a, b) == IF Truthy(a) THEN a ELSE b

\* os.getenv(name, default) on the environment e of a process
getenv(e, name, default) == IF e[name].k = "null" THEN default ELSE e[name]

\* main, lines 110: the path handed to append_to_csv
ResolvePath(e, flat, t) ==
    PyOr(getenv(e, "CSV_OUTPUT_PATH", Null), get_csv_filename(flat, t))

\* main, lines 91-100: the request URL
ApiUrl(e) ==
    LET api_key == getenv(e, "WEATHER_API_KEY", Null)
        lat     == getenv(e, "WEATHER_LAT", Str("16.0544"))
        lon     == getenv(e, "WEATHER_LON", Str("108.2022"))
    IN  IF Truthy(api_key)
        THEN "https://api.openweathermap.org/data/2.5/weather?lat=" \o lat.s
             \o "&lon=" \o lon.s \o "&appid=" \o api_key.s
        ELSE "https://api.openweathermap.org/data/2.5/weather?lat=16.0544&lon=108.2022&appid=d16c000ae5dc1648b49213b3311a43dd"

\* --------------------------------------------------------------- fetcher
\* A response is what the network gives back to one GET:
\*   net  = "refused" (no connection), "http401" (an HTTP error status)
\*          or "ok"
\*   body = "undecodable" (not UTF-8), "notjson" or "json", and then value
\*          is the parsed document.
Response(net, body, value) == [net |-> net, body |-> body, value |-> value]

\* urlopen(api_url), response.read().decode('utf-8'), json.loads(...)
ReadJson(resp) ==
    CASE resp.net = "refused"      -> Exc("URLError")
      [] resp.net = "http401"      -> Exc("HTTPError")
      [] resp.body = "undecodable" -> Exc("UnicodeDecodeError")
      [] resp.body = "notjson"     -> Exc("JSONDecodeError")
      [] OTHER                     -> resp.value

\* except URLError: HTTPError is its subclass, the decoding errors are
\* ValueErrors and are not
IsURLError(name) == name \in {"URLError", "HTTPError"}

\* ------------------------------------------------------------- documents
\* the end-to-end example of the API's answer
FullDoc ==
    Obj([ dt         |-> Num("1700000000"),
          id         |-> Num("42"),
          name       |-> Str("Danang"),
          sys        |-> Obj([country |-> Str("VN"), sunrise |-> Num("1"),
                              sunset |-> Num("2")]),
          coord      |-> Obj([lat |-> Num("16.05"), lon |-> Num("108.2")]),
          weather    |-> Arr(<< Obj([id |-> Num("800"), main |-> Str("Clear"),
                                     description |-> Str("clear sky")]) >>),
          main       |-> Obj([temp |-> Num("30.1"), feels_like |-> Num("33.0"),
                              pressure |-> Num("1008"), humidity |-> Num("70")]),
          visibility |-> Num("10000"),
          wind       |-> Obj([speed |-> Num("2.5"), deg |-> Num("90")]),
          clouds     |-> Obj([all |-> Num("5")]),
          timezone   |-> Num("25200") ])

NestedKeys == {"sys", "coord", "main", "wind", "clouds", "weather"}

Without(doc, keys) == Obj([key \in (DOMAIN doc.m) \ keys |-> doc.m[key]])

With(doc, key, v) ==
    Obj([x \in (DOMAIN doc.m) \cup {key} |-> IF x = key THEN v ELSE doc.m[x]])

\* strings that need quoting in a CSV field, and a second weather entry
TrickyDoc ==
    With(With(With(FullDoc,
        "name", Str("Da Nang, \"VN\"")),
        "weather", Arr(<< Obj([id |-> Num("500"), main |-> Str("Rain"),
                               description |-> Str("light\r\nrain")]),
                          Obj([id |-> Num("701")]) >>)),
        "coord", Obj([lat |-> Num("-33.87"), lon |-> Null]))

EmptyWeatherDoc == With(FullDoc, "weather", Arr(<<>>))

\* every way of leaving out nested keys of the example
SubsetDocs == {Without(FullDoc, keys) : keys \in SUBSET NestedKeys}

ObjectDocs ==
    SubsetDocs \cup
    { EmptyObj, TrickyDoc, EmptyWeatherDoc,
      Obj([weather |-> Arr(<<>>)]),
      With(FullDoc, "sys", Null),
      With(FullDoc, "weather", EmptyObj),
      With(FullDoc, "visibility", Bool("True")) }

NonObjectDocs == { Arr(<<>>), Arr(<<FullDoc>>), Null, Num("7"), Str("ok") }

AllDocs == ObjectDocs \cup NonObjectDocs

FailedResponses ==
    { Response("refused", "", Null), Response("http401", "json", EmptyObj),
      Response("ok", "undecodable", Null), Response("ok", "notjson", Null) }

\* the answers a run of a sequence of runs may get
Responses ==
    { Response("refused", "", Null), Response("ok", "notjson", Null),
      Response("ok", "json", FullDoc), Response("ok", "json", TrickyDoc),
      Response("ok", "json", EmptyWeatherDoc) }

\* the answers overlapping runs may get
ConcurrentResponses ==
    { Response("ok", "json", FullDoc), Response("refused", "", Null) }

\* the answers of the single-run specification
AllResponses ==
    FailedResponses \cup { Response("ok", "json", d) : d \in AllDocs }

\* ----------------------------------------------------------- environment
EnvVars == {"WEATHER_API_KEY", "WEATHER_LAT", "WEATHER_LON", "CSV_OUTPUT_PATH"}

Env(key, lat, lon, path) ==
    [v \in EnvVars |->
        CASE v = "WEATHER_API_KEY" -> key
          [] v = "WEATHER_LAT"     -> lat
          [] v = "WEATHER_LON"     -> lon
          [] v = "CSV_OUTPUT_PATH" -> path]

NoEnv == Env(Null, Null, Null, Null)

Envs ==
    { NoEnv,
      Env(Str("k1"), Str("21.03"), Str("105.85"), Str("out.csv")),
      Env(Str(""), Str("21.03"), Null, Str("")) }

\* overlapping runs are given the same output path
ConcurrentEnvs == { Env(Null, Null, Null, Str("out.csv")) }

\* ----------------------------------------------------------------- state
MaxRuns == 2          \* process runs of one behaviour
MaxConcurrent == 2    \* process runs that may overlap

Procs == 1..MaxConcurrent

VARIABLES
    fs,           \* regular files: path -> text
    dirs,         \* paths that are directories
    clock,        \* the wall clock, in ticks
    runs,         \* process runs started so far
    pc,           \* where each process stands
    env,          \* the environment each process was started with
    api_url,      \* main: api_url
    response,     \* the answer of the network to the process's request
    weather_data, \* main: weather_data
    flat_data,    \* main: flat_data
    csv_path,     \* main: csv_path / append_to_csv: csv_path
    file_exists,  \* append_to_csv: file_exists
    exit_code,    \* exit status of the process, -1 while it runs
    raised,       \* the exception that ended the process uncaught, or ""
    stdout,       \* lines the process printed to the output stream
    stderr,       \* lines the process printed to the error stream
    calls,        \* history: the calls of append_to_csv, in call order
    fs0,          \* history: the regular files of the initial state
    fs_start      \* history: the regular files when each process started

vars == << fs, dirs, clock, runs, pc, env, api_url, response, weather_data,
           flat_data, csv_path, file_exists, exit_code, raised, stdout,
           stderr, calls, fs0, fs_start >>

NoResponse == Response("", "", Null)

NoFiles == [x \in {} |-> ""]

\* the file systems a first run may find: nothing; empty files at the
\* configured and at a computed path; a directory at the configured path
InitialFileSystems ==
    { [files |-> NoFiles, dirs |-> {}],
      [files |-> [x \in {"out.csv", "2027-16.05-108.2.csv"} |-> ""], dirs |-> {}],
      [files |-> NoFiles, dirs |-> {"out.csv"}] }

Init ==
    /\ \E f \in InitialFileSystems : fs = f.files /\ dirs = f.dirs /\ fs0 = f.files
    /\ clock = 0
    /\ runs = 0
    /\ pc = [p \in Procs |-> "idle"]
    /\ env = [p \in Procs |-> NoEnv]
    /\ api_url = [p \in Procs |-> ""]
    /\ response = [p \in Procs |-> NoResponse]
    /\ weather_data = [p \in Procs |-> Null]
    /\ flat_data = [p \in Procs |-> Null]
    /\ csv_path = [p \in Procs |-> ""]
    /\ file_exists = [p \in Procs |-> FALSE]
    /\ exit_code = [p \in Procs |-> -1]
    /\ raised = [p \in Procs |-> ""]
    /\ stdout = [p \in Procs |-> <<>>]
    /\ stderr = [p \in Procs |-> <<>>]
    /\ calls = <<>>
    /\ fs_start = [p \in Procs |-> fs]

Terminated(p) == pc[p] \in {"done", "exited"}

\* faulty variant: the existence check asks for a file that holds something
isfileNonEmpty(path) == path \in DOMAIN fs /\ fs[path] # ""

\* os.path.isfile(path)
isfile(path) == path \in DOMAIN fs

\* an exception nobody catches: the interpreter prints the traceback and
\* the process ends with status 1
Uncaught(p, name) ==
    /\ pc' = [pc EXCEPT ![p] = "exited"]
    /\ exit_code' = [exit_code EXCEPT ![p] = 1]
    /\ raised' = [raised EXCEPT ![p] = name]
    /\ stderr' = [stderr EXCEPT ![p] = Append(@, "Traceback (most recent call last): " \o name)]

\* ---------------------------------------------------------------- steps
\* A new process in slot p, with an environment of envs; main, lines
\* 90-103: read the environment, build the URL, announce the fetch
Begin(p, envs) ==
    /\ runs' = runs + 1
    /\ \E e \in envs :
          /\ env' = [env EXCEPT ![p] = e]
          /\ api_url' = [api_url EXCEPT ![p] = ApiUrl(e)]
    /\ response' = [response EXCEPT ![p] = NoResponse]
    /\ weather_data' = [weather_data EXCEPT ![p] = Null]
    /\ flat_data' = [flat_data EXCEPT ![p] = Null]
    /\ csv_path' = [csv_path EXCEPT ![p] = ""]
    /\ file_exists' = [file_exists EXCEPT ![p] = FALSE]
    /\ exit_code' = [exit_code EXCEPT ![p] = -1]
    /\ raised' = [raised EXCEPT ![p] = ""]
    /\ stdout' = [stdout EXCEPT ![p] = <<"Fetching weather data...">>]
    /\ stderr' = [stderr EXCEPT ![p] = <<>>]
    /\ pc' = [pc EXCEPT ![p] = "fetch"]
    /\ fs_start' = [fs_start EXCEPT ![p] = fs]
    /\ UNCHANGED << fs, dirs, clock, calls, fs0 >>

\* runs one after the other: a run starts when the one before has ended
Start ==
    /\ runs < MaxRuns
    /\ pc[1] = "idle" \/ Terminated(1)
    /\ Begin(1, Envs)

\* overlapping runs, one per slot
StartConcurrent(p) ==
    /\ pc[p] = "idle"
    /\ Begin(p, ConcurrentEnvs)

\* a single run
StartOnce ==
    /\ runs = 0
    /\ Begin(1, Envs)

\* faulty variant: the except clause prints the diagnostic and falls through, so
\* that fetch_weather_data returns None instead of ending the process
FetchFromNoExit(p, answers) ==
    /\ pc[p] = "fetch"
    /\ \E resp \in answers :
          LET r == ReadJson(resp) IN
          /\ response' = [response EXCEPT ![p] = resp]
          /\ IF IsExc(r) /\ IsURLError(r.s)
             THEN /\ stderr' = [stderr EXCEPT ![p] = Append(@, "Error fetching data: " \o r.s)]
                  /\ weather_data' = [weather_data EXCEPT ![p] = Null]
                  /\ pc' = [pc EXCEPT ![p] = "flatten"]
                  /\ UNCHANGED << exit_code, raised >>
             ELSE IF IsExc(r)
             THEN /\ Uncaught(p, r.s)
                  /\ UNCHANGED weather_data
             ELSE /\ weather_data' = [weather_data EXCEPT ![p] = r]
                  /\ pc' = [pc EXCEPT ![p] = "flatten"]
                  /\ UNCHANGED << exit_code, raised, stderr >>
    /\ UNCHANGED << fs, dirs, clock, runs, env, api_url, flat_data, csv_path,
                    file_exists, stdout, calls, fs0, fs_start >>

\* fetch_weather_data(api_url), the network answering with one of answers
FetchFrom(p, answers) ==
    /\ pc[p] = "fetch"
    /\ \E resp \in answers :
          LET r == ReadJson(resp) IN
          /\ response' = [response EXCEPT ![p] = resp]
          /\ IF IsExc(r) /\ IsURLError(r.s)
             THEN \* print(..., file=sys.stderr); sys.exit(1)
                  /\ stderr' = [stderr EXCEPT ![p] = Append(@, "Error fetching data: " \o r.s)]
                  /\ exit_code' = [exit_code EXCEPT ![p] = 1]
                  /\ pc' = [pc EXCEPT ![p] = "exited"]
                  /\ UNCHANGED << weather_data, raised >>
             ELSE IF IsExc(r)
             THEN /\ Uncaught(p, r.s)
                  /\ UNCHANGED weather_data
             ELSE /\ weather_data' = [weather_data EXCEPT ![p] = r]
                  /\ pc' = [pc EXCEPT ![p] = "flatten"]
                  /\ UNCHANGED << exit_code, raised, stderr >>
    /\ UNCHANGED << fs, dirs, clock, runs, env, api_url, flat_data, csv_path,
                    file_exists, stdout, calls, fs0, fs_start >>

Fetch(p) == FetchFrom(p, Responses)

FetchConcurrent(p) == FetchFrom(p, ConcurrentResponses)

FetchAny(p) == FetchFrom(p, AllResponses)

\* main, line 107: flat_data = flatten_weather_data(weather_data)
Flatten(p) ==
    /\ pc[p] = "flatten"
    /\ LET r == flatten_weather_data(weather_data[p], IsoFormat(clock)) IN
          IF IsExc(r)
          THEN /\ Uncaught(p, r.s)
               /\ UNCHANGED flat_data
          ELSE /\ flat_data' = [flat_data EXCEPT ![p] = r]
               /\ pc' = [pc EXCEPT ![p] = "resolve"]
               /\ UNCHANGED << exit_code, raised, stderr >>
    /\ UNCHANGED << fs, dirs, clock, runs, env, api_url, response, weather_data,
                    csv_path, file_exists, stdout, calls, fs0, fs_start >>

\* main, lines 110-111: resolve the path and call append_to_csv
Resolve(p) ==
    /\ pc[p] = "resolve"
    /\ LET path == ResolvePath(env[p], flat_data[p], clock) IN
          /\ csv_path' = [csv_path EXCEPT ![p] = path.s]
          /\ calls' = Append(calls, [proc |-> p, run |-> runs, path |-> path.s,
                                  data |-> flat_data[p]])
    /\ pc' = [pc EXCEPT ![p] = "isfile"]
    /\ UNCHANGED << fs, dirs, clock, runs, env, api_url, response, weather_data,
                    flat_data, file_exists, exit_code, raised, stdout, stderr, fs0, fs_start >>

\* append_to_csv, line 59: file_exists = os.path.isfile(csv_path)
IsFile(p) ==
    /\ pc[p] = "isfile"
    /\ file_exists' = [file_exists EXCEPT ![p] = isfile(csv_path[p])]
    /\ pc' = [pc EXCEPT ![p] = "open"]
    /\ UNCHANGED << fs, dirs, clock, runs, env, api_url, response, weather_data,
                    flat_data, csv_path, exit_code, raised, stdout, stderr,
                    calls, fs0, fs_start >>

\* append_to_csv, line 61: open(csv_path, 'a', newline='') creates the
\* file when there is none and fails on a directory
Open(p) ==
    /\ pc[p] = "open"
    /\ IF csv_path[p] \in dirs
       THEN /\ Uncaught(p, "IsADirectoryError")
            /\ UNCHANGED fs
       ELSE /\ fs' = [x \in (DOMAIN fs) \cup {csv_path[p]} |->
                         IF x \in DOMAIN fs THEN fs[x] ELSE ""]
            /\ pc' = [pc EXCEPT ![p] = "write"]
            /\ UNCHANGED << exit_code, raised, stderr >>
    /\ UNCHANGED << dirs, clock, runs, env, api_url, response, weather_data,
                    flat_data, csv_path, file_exists, stdout, calls, fs0, fs_start >>

\* faulty variant: the header is written by every invocation
WritesHeaderAlways(p) == TRUE

\* faulty variant: the header is decided at the write, by the file being empty
WritesHeaderIfEmpty(p) == fs[csv_path[p]] = ""

\* append_to_csv, line 73: the header is written when not file_exists
WritesHeader(p) == ~ file_exists[p]

\* append_to_csv, lines 71-76: what the call hands to the file object
WrittenText(p) ==
    (IF WritesHeader(p) THEN HeaderText ELSE "") \o DictWriterRow(flat_data[p]).s

\* faulty variant: the file is opened with mode 'w', the write replaces its text
WriteTruncating(p) ==
    /\ pc[p] = "write"
    /\ fs' = [fs EXCEPT ![csv_path[p]] = WrittenText(p)]
    /\ stdout' = [stdout EXCEPT ![p] = Append(@, "Weather data appended to " \o csv_path[p])]
    /\ exit_code' = [exit_code EXCEPT ![p] = 0]
    /\ pc' = [pc EXCEPT ![p] = "done"]
    /\ UNCHANGED << dirs, clock, runs, env, api_url, response, weather_data,
                    flat_data, csv_path, file_exists, raised, stderr, calls, fs0, fs_start >>

\* append_to_csv, lines 71-78: writeheader, writerow; the close at the end
\* of the with block puts the buffered text at the end of the file; then
\* the confirmation is printed and main returns
Write(p) ==
    /\ pc[p] = "write"
    /\ fs' = [fs EXCEPT ![csv_path[p]] = @ \o WrittenText(p)]
    /\ stdout' = [stdout EXCEPT ![p] = Append(@, "Weather data appended to " \o csv_path[p])]
    /\ exit_code' = [exit_code EXCEPT ![p] = 0]
    /\ pc' = [pc EXCEPT ![p] = "done"]
    /\ UNCHANGED << dirs, clock, runs, env, api_url, response, weather_data,
                    flat_data, csv_path, file_exists, raised, stderr, calls, fs0, fs_start >>

\* time passes
Tick ==
    /\ clock < MaxClock
    /\ clock' = clock + 1
    /\ UNCHANGED << fs, dirs, runs, pc, env, api_url, response, weather_data,
                    flat_data, csv_path, file_exists, exit_code, raised,
                    stdout, stderr, calls, fs0, fs_start >>

Pipeline(p) ==
    \/ Flatten(p) \/ Resolve(p) \/ IsFile(p) \/ Open(p) \/ Write(p)

\* process runs one after the other
Next ==
    \/ Start \/ Fetch(1) \/ Pipeline(1)
    \/ Tick

Spec == Init /\ [][Next]_vars

\* process runs that overlap
NextConcurrent ==
    \E p \in Procs : StartConcurrent(p) \/ FetchConcurrent(p) \/ Pipeline(p)

SpecConcurrent == Init /\ [][NextConcurrent]_vars

\* one run, over every document
NextOneRun ==
    \/ StartOnce \/ FetchAny(1) \/ Pipeline(1)
    \/ Tick

SpecOneRun == Init /\ [][NextOneRun]_vars

\* ================================================================ claims
Running(p) == pc[p] \notin {"idle", "fetch"}

\* the process got a parsed JSON document and is past the Flattener
Flattened(p) ==
    /\ response[p].net = "ok" /\ response[p].body = "json"
    /\ pc[p] \notin {"idle", "fetch", "flatten"}

IsFlatRecord(v) ==
    /\ v.k = "obj"
    /\ DOMAIN v.m = FieldSet
    /\ Cardinality(DOMAIN v.m) = NumFields
    /\ \A f \in FieldSet : v.m[f].k \in {"null", "num", "str", "bool"}

\* C1: flatten_weather_data is total: whatever JSON document the process
\* was given (an object, the empty object, an object without some of the
\* nested keys, a non-object value), once the Flattener has run the
\* process holds a record of exactly the 25 fields, each a value or null,
\* and no exception was raised.
C1_FlattenTotal ==
    \A p \in Procs :
        Flattened(p) =>
            /\ IsFlatRecord(flat_data[p])
            /\ raised[p] \notin {"AttributeError", "IndexError", "KeyError", "TypeError"}

WeatherMissingOrEmpty(d) ==
    /\ d.k = "obj"
    /\ "weather" \notin DOMAIN d.m \/ d.m["weather"] = Arr(<<>>)
    /\ \A key \in (DOMAIN d.m) \cap NestedKeys : key = "weather" \/ d.m[key].k = "obj"

\* C6: when the weather key of the document is the empty list or is
\* missing, the Flattener returns a record whose weather_id, weather_main
\* and weather_description are all null.
C6_MissingWeatherIsNull ==
    \A p \in Procs :
        (Flattened(p) /\ WeatherMissingOrEmpty(weather_data[p])) =>
            /\ flat_data[p].k = "obj"
            /\ \A f \in {"weather_id", "weather_main", "weather_description"} :
                  Get(flat_data[p], f, Str("absent")) = Null

HasDiagnostic(p) ==
    \E i \in 1..Len(stderr[p]) : SubSeq(stderr[p][i], 1, 21) = "Error fetching data: "

BadBody(p) ==
    response[p].net = "ok" /\ response[p].body \in {"undecodable", "notjson"}

\* C4: a response body that cannot be decoded or is not JSON is handled
\* like a connection failure: the Fetcher prints its diagnostic to the
\* error stream and ends the process with a non-zero status; no exception
\* leaves the Fetcher and no file is written.
C4_BadBodyIsFetchError ==
    \A p \in Procs :
        BadBody(p) =>
            /\ pc[p] = "exited" /\ exit_code[p] > 0
            /\ HasDiagnostic(p)
            /\ raised[p] = ""
            /\ fs = fs_start[p]

ConnectFailed(p) == response[p].net = "refused"

\* C3: when the request fails to connect, the process ends with a
\* non-zero exit status, the Flattener and the Writer are never reached
\* and no file is created or modified by the run.
C3_TransportFailure ==
    \A p \in Procs :
        ConnectFailed(p) =>
            /\ pc[p] = "exited" /\ exit_code[p] > 0
            /\ weather_data[p] = Null /\ flat_data[p] = Null
            /\ csv_path[p] = ""
            /\ \A i \in 1..Len(calls) : calls[i].run # runs
            /\ fs = fs_start[p]

\* a run has failed to connect after an earlier run had written a file
C3_Witness ==
    /\ ConnectFailed(1) /\ pc[1] = "exited"
    /\ \E path \in DOMAIN fs : fs[path] # ""

\* the cell texts a record must show in a row: a null field is the empty
\* cell, any other field the text of its value
Cells(data) ==
    [i \in 1..Len(fieldnames) |->
        IF data.m[fieldnames[i]] = Null THEN "" ELSE PyStr(data.m[fieldnames[i]])]

InAppend(p) == pc[p] \in {"isfile", "open", "write"}

CalledPaths == {calls[i].path : i \in 1..Len(calls)}

CallsOn(path) == SelectSeq(calls, LAMBDA c : c.path = path)

DataRowsOf(cs) == [i \in 1..Len(cs) |-> Cells(cs[i].data)]

\* C2: header-once: between invocations, a file at a path that did not
\* exist at first and on which append_to_csv was invoked n >= 1 times, one
\* invocation after the other, reads back as exactly one header row
\* followed by the n data rows of the invocations, in call order.
C2_HeaderOnce ==
    ~ InAppend(1) =>
        \A path \in CalledPaths \ ((DOMAIN fs0) \cup dirs) :
            /\ path \in DOMAIN fs
            /\ ReadRows(fs[path]) = <<fieldnames>> \o DataRowsOf(CallsOn(path))

\* two invocations with different records on one fresh path have ended
C2_Witness ==
    /\ pc[1] = "done"
    /\ csv_path[1] \notin (DOMAIN fs0) \cup dirs
    /\ LET cs == CallsOn(csv_path[1])
       IN  Len(cs) = 2 /\ cs[1].data # cs[2].data

\* C5: fixed columns: every row of every file, header or data, has
\* exactly 25 fields; the row a run wrote shows the fields of its record
\* in the order of the header, a null field as an empty field, whatever
\* fields the document held; a header the run wrote is the 25 field names.
C5_FixedColumns ==
    /\ \A path \in DOMAIN fs :
          LET rows == ReadRows(fs[path])
          IN  \A i \in 1..Len(rows) : Len(rows[i]) = NumFields
    /\ pc[1] = "done" =>
          LET rows == ReadRows(fs[csv_path[1]])
              last == rows[Len(rows)]
          IN  /\ \A i \in 1..NumFields :
                    LET v == flat_data[1].m[fieldnames[i]]
                    IN  last[i] = IF v = Null THEN "" ELSE PyStr(v)
              /\ ~ file_exists[1] => (Len(rows) = 2 /\ rows[1] = fieldnames)

\* a run wrote a record with a null field next to fields that need quotes
C5_Witness ==
    /\ pc[1] = "done" /\ ~ file_exists[1]
    /\ flat_data[1].m["lon"] = Null
    /\ flat_data[1].m["city_name"] = Str("Da Nang, \"VN\"")
    /\ flat_data[1].m["sunset"] = Num("2")

IsPrefix(a, b) == Len(a) <= Len(b) /\ SubSeq(b, 1, Len(a)) = a

\* one step of the file system under append-only
AppendOnlyStep ==
    /\ \A path \in DOMAIN fs : path \in DOMAIN fs' /\ IsPrefix(fs[path], fs'[path])
    /\ \A path \in (DOMAIN fs') \ (DOMAIN fs) : fs'[path] = ""
    /\ \A path \in DOMAIN fs :
          fs'[path] # fs[path] =>
              \E p \in Procs :
                  /\ pc[p] = "write" /\ pc'[p] = "done" /\ csv_path[p] = path
                  /\ ReadRows(fs'[path]) =
                        ReadRows(fs[path])
                        \o (IF file_exists[p] THEN <<>> ELSE <<fieldnames>>)
                        \o <<Cells(flat_data[p])>>

\* a run that ended with success made exactly one append: against the
\* file system it started on, its path holds one more data row (after the
\* header if the path did not exist) and nothing else has changed
OneAppendPerRun ==
    pc[1] = "done" =>
        LET path   == csv_path[1]
            before == IF path \in DOMAIN fs_start[1] THEN fs_start[1][path] ELSE ""
        IN  /\ DOMAIN fs = (DOMAIN fs_start[1]) \cup {path}
            /\ \A x \in (DOMAIN fs) \ {path} : fs[x] = fs_start[1][x]
            /\ ReadRows(fs[path]) =
                  ReadRows(before)
                  \o (IF path \in DOMAIN fs_start[1] THEN <<>> ELSE <<fieldnames>>)
                  \o <<Cells(flat_data[1])>>
            /\ Len(SelectSeq(calls, LAMBDA c : c.run = runs)) = 1

\* C7: append-only: every step leaves the text already in a file as a
\* prefix of its new text; a file changes only by an invocation of
\* append_to_csv, which adds exactly one data row, after a header row only
\* when the file did not exist; a successful run makes exactly one append.
C7_AppendOnly == [][AppendOnlyStep]_vars /\ [](OneAppendPerRun)

\* a run has appended its row to a file that held rows already
C7_Witness ==
    /\ pc[1] = "done"
    /\ csv_path[1] \in DOMAIN fs_start[1]
    /\ fs_start[1][csv_path[1]] # ""

PathSet(p) == env[p]["CSV_OUTPUT_PATH"] # Null

\* C8 as stated: whenever CSV_OUTPUT_PATH is set, the path handed to the
\* Writer is exactly its value.
C8_SetPathVerbatim ==
    \A p \in Procs :
        (PathSet(p) /\ pc[p] \in {"isfile", "open", "write", "done"}) =>
            csv_path[p] = env[p]["CSV_OUTPUT_PATH"].s

\* the file name computed from the document the run was answered with
ComputedName(p) ==
    LET coord == Get(response[p].value, "coord", EmptyObj)
        part(key) == IF key \in DOMAIN coord.m /\ coord.m[key] # Null
                     THEN coord.m[key].s ELSE "None"
    IN  ToString(Year(clock)) \o "-" \o part("lat") \o "-" \o part("lon") \o ".csv"

ResolveStep ==
    \A p \in Procs :
        (pc[p] = "resolve" /\ pc'[p] = "isfile") =>
            csv_path'[p] =
                IF PathSet(p) /\ env[p]["CSV_OUTPUT_PATH"].s # ""
                THEN env[p]["CSV_OUTPUT_PATH"].s
                ELSE ComputedName(p)

\* C8, amended: when CSV_OUTPUT_PATH is set to a non-empty value the path
\* handed to the Writer is that value; when it is not set or is the empty
\* string the path is {current year}-{lat}-{lon}.csv, the year read at that
\* moment and lat/lon those of the flattened record, which are those of the
\* answer and not the requested WEATHER_LAT/WEATHER_LON.
C8_PathResolution == [][ResolveStep]_vars

\* a run asked for other coordinates, had CSV_OUTPUT_PATH set to the empty
\* string, and wrote to the name computed from the answer
C8_Witness ==
    \E p \in Procs :
        /\ pc[p] = "done"
        /\ env[p]["CSV_OUTPUT_PATH"] = Str("")
        /\ env[p]["WEATHER_LAT"] = Str("21.03")
        /\ csv_path[p] \in {"2026-16.05-108.2.csv", "2027-16.05-108.2.csv"}

HeaderCount(path) ==
    LET rows == ReadRows(fs[path])
    IN  Cardinality({i \in 1..Len(rows) : rows[i] = fieldnames})

SawAbsent(path) ==
    {p \in Procs : pc[p] = "done" /\ csv_path[p] = path /\ ~ file_exists[p]}

\* C9: the existence check and the append are separate steps under no
\* lock: with overlapping invocations on one path a file holds one header
\* row for every finished invocation that saw the path absent at its
\* check, however many those are, so that two invocations that both saw it
\* absent leave two header rows.
C9_HeaderPerAbsentCheck ==
    \A path \in DOMAIN fs : HeaderCount(path) = Cardinality(SawAbsent(path))

\* two overlapping invocations on an absent path both wrote a header
C9_Witness ==
    \E path \in DOMAIN fs :
        /\ path \notin DOMAIN fs0
        /\ Cardinality(SawAbsent(path)) = 2
        /\ HeaderCount(path) = 2

\* C10: the header decision is the result of the existence check alone:
\* a file that existed at first without a header never gets one; between
\* invocations it reads back as the data rows of the invocations on it, in
\* call order, and nothing else.
C10_NoHeaderForExistingFile ==
    /\ \A p \in Procs :
          pc[p] \in {"open", "write", "done"} =>
              (WritesHeader(p) <=> csv_path[p] \notin DOMAIN fs_start[p])
    /\ ~ InAppend(1) =>
          \A path \in DOMAIN fs0 :
              /\ HeaderCount(path) = 0
              /\ ReadRows(fs[path]) = DataRowsOf(CallsOn(path))

\* two runs have appended to a file that existed, empty, at first
C10_Witness ==
    /\ pc[1] = "done"
    /\ csv_path[1] \in DOMAIN fs0
    /\ Len(CallsOn(csv_path[1])) = 2
    /\ Len(ReadRows(fs[csv_path[1]])) = 2

====
